---- MODULE Spec2Model ----
(***************************************************************************)
(* Model of the Google Ads status trackers (ad-status-tracker.js and       *)
(* ad-group-status-tracker.js): one run of main() loads the snapshot       *)
(* sheet, fetches the current entities, detects the changes, appends them  *)
(* to the Status Log, sends a Slack alert and overwrites the snapshot.     *)
(*                                                                         *)
(* Strings that are only compared are TLA+ strings.  Entity ids are        *)
(* decimal strings, modelled as sequences of digits, because the order in  *)
(* which JavaScript enumerates the keys of an object depends on their      *)
(* numeric value.  The descriptive columns (campaign name, ad group name,  *)
(* ad type) are copied by the code in exactly the same way; campaignName   *)
(* stands for them.                                                        *)
(***************************************************************************)
EXTENDS Integers, Sequences, FiniteSets, TLC

VARIABLES
    script,            \* which tracker runs: "ad" or "adgroup"
    pc,                \* position of main()
    runs,              \* number of runs started; also the clock of new Date()
    logSheet,          \* the "Status Log" sheet: Absent or its rows
    snapSheet,         \* the snapshot sheet: Absent or its rows
    previousSnapshot,  \* main's local: the mapping loaded from the snapshot
    currentAds,        \* main's local: the mapping being fetched / fetched
    fetched,           \* number of rows the query iterator has yielded, while
                       \* main holds the result of the fetch or of the
                       \* detection
    fetchError,        \* TRUE when the fetch of this run ended in its catch
    changes,           \* main's local: the change records of this run
    posts,             \* webhook posts of this run: <<url, summary, total>>
    summary,           \* the counts categorizeChanges last returned
    outcome,           \* how the last run ended
    lastSaved,         \* the mapping saved by the last run that completed
    everCompleted,     \* TRUE once a run of the script has completed
    fetchOrder,        \* the ids of this run's query rows, in the order in
                       \* which the iterator first yielded them, while main
                       \* holds the result of the fetch or of the detection
    helper,            \* <<h>>: the helper spreadsheet the call of
                       \* sendSlackAlert that main just made has met
    lastRemoved,       \* the ids the previous run reported as removed, when
                       \* that run completed
    lastCompleted,     \* TRUE when the run before this one (the last run,
                       \* between two runs) returned from main
    abortedRun         \* <<[previous, fetched, changes]>>: the locals of the
                       \* previous run, when the host ended that run between
                       \* its append to the Status Log and its overwrite of
                       \* the snapshot

vars == <<script, pc, runs, logSheet, snapSheet, previousSnapshot, currentAds,
          fetched, fetchError, changes, posts, summary, outcome, lastSaved,
          everCompleted, fetchOrder, helper, lastRemoved, lastCompleted, abortedRun>>

-----------------------------------------------------------------------------
(* Bounds of the model *)

MaxRuns == 2
MaxFetch == 2

-----------------------------------------------------------------------------
(* Entity ids and JavaScript objects used as mappings *)

\* The largest array index of ECMAScript, 2^32 - 2, as a digit sequence.
MaxArrayIndex == <<4, 2, 9, 4, 9, 6, 7, 2, 9, 4>>

\* One id that is an array index and one that is not (2^32 - 1).
SmallId == <<7>>
BigId == <<4, 2, 9, 4, 9, 6, 7, 2, 9, 5>>
Ids == {SmallId, BigId}

RECURSIVE DigitsLess(_, _)
\* a < b for digit sequences of the same length
DigitsLess(a, b) ==
    IF a = <<>> THEN FALSE
    ELSE IF Head(a) # Head(b) THEN Head(a) < Head(b)
    ELSE DigitsLess(Tail(a), Tail(b))

\* numeric a < b for canonical decimal strings
NumLess(a, b) ==
    IF Len(a) # Len(b) THEN Len(a) < Len(b) ELSE DigitsLess(a, b)

\* A property key is an array index when it is the canonical decimal form
\* of an integer in 0 .. 2^32 - 2.
IsArrayIndex(k) ==
    /\ k # <<>>
    /\ (Len(k) > 1 => Head(k) # 0)
    /\ ~NumLess(MaxArrayIndex, k)

\* An object is the sequence of its own properties [key, val] in the order
\* for-in enumerates them: array indices ascending, then the other keys in
\* insertion order.
EmptyObject == <<>>

Keys(obj) == {obj[i].key : i \in 1..Len(obj)}

Has(obj, k) == k \in Keys(obj)

Get(obj, k) == (CHOOSE i \in 1..Len(obj) : obj[i].key = k)

Lookup(obj, k) == obj[Get(obj, k)].val

\* Number of properties that are enumerated before a new key k.
InsertPos(obj, k) ==
    IF IsArrayIndex(k)
    THEN Cardinality({i \in 1..Len(obj) :
             IsArrayIndex(obj[i].key) /\ NumLess(obj[i].key, k)})
    ELSE Len(obj)

\* obj[k] = v
Put(obj, k, v) ==
    IF Has(obj, k)
    THEN [obj EXCEPT ![Get(obj, k)] = [key |-> k, val |-> v]]
    ELSE LET p == InsertPos(obj, k)
         IN  SubSeq(obj, 1, p) \o <<[key |-> k, val |-> v]>>
                 \o SubSeq(obj, p + 1, Len(obj))

-----------------------------------------------------------------------------
(* Sheets of the spreadsheet *)

\* A sheet is absent or has rows; rows holds the rows up to the last one with
\* content (getLastRow), the rows after it are blank.
Header == [tag |-> "header"]
Blank == [tag |-> "blank"]
Absent == [exists |-> FALSE, rows |-> <<>>]
BlankSheet == [exists |-> TRUE, rows |-> <<>>]

RECURSIVE Trim(_)
\* drop the blank rows at the end
Trim(rows) ==
    IF rows = <<>> \/ rows[Len(rows)] # Blank THEN rows
    ELSE Trim(SubSeq(rows, 1, Len(rows) - 1))

\* sheet.getLastRow()
getLastRow(sheet) == Len(Trim(sheet.rows))

\* row r of the sheet (1-based), blank beyond the last row with content
RowAt(rows, r) == IF r <= Len(rows) THEN rows[r] ELSE Blank

Max(a, b) == IF a >= b THEN a ELSE b

\* a clear that leaves the rows as they are
MutClearRowsNothing(sheet, start, n) == sheet

\* sheet.getRange(start, 1, n, width).clear()
ClearRows(sheet, start, n) ==
    [sheet EXCEPT !.rows =
        Trim([r \in 1..Len(sheet.rows) |->
                 IF r >= start /\ r < start + n THEN Blank ELSE sheet.rows[r]])]

\* sheet.getRange(start, 1, Len(newRows), width).setValues(newRows)
SetValues(sheet, start, newRows) ==
    [sheet EXCEPT !.rows =
        Trim([r \in 1..Max(Len(sheet.rows), start + Len(newRows) - 1) |->
                 IF r >= start /\ r < start + Len(newRows)
                 THEN newRows[r - start + 1]
                 ELSE RowAt(sheet.rows, r)])]

\* sheet.getRange(start, 1, n, width).getValues()
GetValues(sheet, start, n) == [i \in 1..n |-> RowAt(sheet.rows, start + i - 1)]

\* a lookup that inserts a new sheet with its header also when the sheet is
\* there
MutGetOrCreateAlwaysNew(sheet) == [exists |-> TRUE, rows |-> <<Header>>]

\* getOrCreateSheet(ss, sheetName, header)
getOrCreateSheet(sheet) ==
    IF ~sheet.exists THEN [exists |-> TRUE, rows |-> <<Header>>] ELSE sheet

\* The sheet when getOrCreateSheet is left before its end: before
\* insertSheet, between insertSheet and appendRow, or after appendRow (the
\* bold font of the header is not part of a sheet here).
LeftGetOrCreateSheet(sheet) ==
    IF ~sheet.exists THEN {sheet, BlankSheet, getOrCreateSheet(sheet)}
    ELSE {sheet}

\* The two sheets when the first lines of main (openByUrl and the two calls
\* of getOrCreateSheet) are left before their end: in the first call, or in
\* the second call after the first has returned.
LeftPrepareSheets(log, snap) ==
    {<<l, snap>> : l \in LeftGetOrCreateSheet(log)}
    \cup {<<getOrCreateSheet(log), sn>> : sn \in LeftGetOrCreateSheet(snap)}

-----------------------------------------------------------------------------
(* Values of the tracked fields *)

\* The value of a property an object does not have, and of a cell column a
\* sheet does not have: the ad group tracker has no approval status.
Undefined == "undefined"

\* row[0].toString() of a row read from a sheet; a blank cell reads as ""
CellId(row) == IF row.tag = "data" THEN row.id ELSE <<>>

CellField(row, f) == IF row.tag = "data" THEN row[f] ELSE ""

-----------------------------------------------------------------------------
(* Loading the snapshot *)

RECURSIVE SnapshotOfRows(_, _, _)
\* The loop of getAdSnapshot / getAdGroupSnapshot over the rows read, from
\* row i on; rows whose id cell is empty are skipped.  lastUpdated is read
\* into the entry and never used again.
SnapshotOfRows(data, i, snapshot) ==
    IF i > Len(data) THEN snapshot
    ELSE LET row == data[i]
             adId == CellId(row)
         IN  IF adId # <<>>
             THEN SnapshotOfRows(data, i + 1,
                      Put(snapshot, adId,
                          [id |-> adId,
                           campaignName |-> CellField(row, "campaignName"),
                           status |-> CellField(row, "status"),
                           approvalStatus |-> CellField(row, "approvalStatus")]))
             ELSE SnapshotOfRows(data, i + 1, snapshot)

\* getAdSnapshot(sheet) and getAdGroupSnapshot(sheet)
getAdSnapshot(sheet) ==
    LET lastRow == getLastRow(sheet)
    IN  IF lastRow <= 1 THEN EmptyObject
        ELSE SnapshotOfRows(GetValues(sheet, 2, lastRow - 1), 1, EmptyObject)

-----------------------------------------------------------------------------
(* Fetching the current entities *)

\* The approval status of a row of the query that has no policySummary
\* object: row.adGroupAd.policySummary is undefined.
NoPolicySummary == "no policySummary"

\* Whether the body of the while loop of getCurrentAdStatuses throws on a
\* row: row.adGroupAd.policySummary.approvalStatus of a row without
\* policySummary is a TypeError.
AdRowThrows(row) == row.approvalStatus = NoPolicySummary

\* The body of the while loop of getCurrentAdStatuses for one row of the
\* query that has a policySummary: an approval status that is falsy there
\* (undefined, null or "", written "") is stored as UNKNOWN.
AdOfRow(ads, row) ==
    Put(ads, row.id,
        [id |-> row.id,
         campaignName |-> row.campaignName,
         status |-> row.status,
         approvalStatus |->
             IF row.approvalStatus = "" THEN "UNKNOWN" ELSE row.approvalStatus])

\* The body of the while loop of getCurrentAdGroupStatuses for one row.
AdGroupOfRow(adGroups, row) ==
    Put(adGroups, row.id,
        [id |-> row.id,
         campaignName |-> row.campaignName,
         status |-> row.status,
         approvalStatus |-> Undefined])

-----------------------------------------------------------------------------
(* Change detection *)

RECURSIVE Join(_)
\* types.join(' + '): the joined string as the sequence of its pieces
Join(types) ==
    IF Len(types) <= 1 THEN types
    ELSE <<Head(types), " + ">> \o Join(Tail(types))

\* The first if of getChangeType (ad tracker): what the status pushes.
StatusFragment(statusChanged, newStatus) ==
    IF ~statusChanged THEN <<>>
    ELSE IF newStatus = "ENABLED" THEN <<"ENABLED">>
    ELSE IF newStatus = "PAUSED" THEN <<"PAUSED">>
    ELSE IF newStatus = "REMOVED" THEN <<"REMOVED">>
    ELSE <<"STATUS_CHANGED">>

\* The second if of getChangeType (ad tracker): what the approval status
\* pushes.
ApprovalFragment(approvalChanged, newApprovalStatus) ==
    IF ~approvalChanged THEN <<>>
    ELSE IF newApprovalStatus = "DISAPPROVED" THEN <<"DISAPPROVED">>
    ELSE IF newApprovalStatus = "APPROVED" THEN <<"APPROVED">>
    ELSE IF newApprovalStatus = "APPROVED_LIMITED" THEN <<"APPROVED_LIMITED">>
    ELSE IF newApprovalStatus = "AREA_OF_INTEREST_ONLY"
         THEN <<"AREA_OF_INTEREST_ONLY">>
    ELSE IF newApprovalStatus = "UNDER_REVIEW" THEN <<"UNDER_REVIEW">>
    ELSE <<"APPROVAL_CHANGED">>

\* A getChangeType that pushes the approval fragment first.
MutGetChangeTypeReversed(statusChanged, approvalChanged, newStatus, newApprovalStatus) ==
    Join(ApprovalFragment(approvalChanged, newApprovalStatus)
         \o StatusFragment(statusChanged, newStatus))

\* getChangeType of ad-status-tracker.js
AdGetChangeType(statusChanged, approvalChanged, newStatus, newApprovalStatus) ==
    Join(StatusFragment(statusChanged, newStatus)
         \o ApprovalFragment(approvalChanged, newApprovalStatus))

\* getChangeType of ad-group-status-tracker.js
AdGroupGetChangeType(newStatus) ==
    IF newStatus = "ENABLED" THEN <<"ENABLED">>
    ELSE IF newStatus = "PAUSED" THEN <<"PAUSED">>
    ELSE IF newStatus = "REMOVED" THEN <<"REMOVED">>
    ELSE <<"STATUS_CHANGED">>

\* A first-run test that needs two entries in the snapshot.
MutNotFirstRunOffByOne(previousSnapshot_) == Len(previousSnapshot_) > 1

\* A detector without the first-run test.
MutNotFirstRunAlways(previousSnapshot_) == TRUE

\* Object.keys(previousSnapshot).length > 0
NotFirstRun(previousSnapshot_) == Len(previousSnapshot_) > 0

\* previous.status !== current.status
StatusChanged(previous, current) == previous.status # current.status

\* A comparison that never sees an approval status change.
MutApprovalChangedNever(previous, current) == FALSE

\* previous.approvalStatus !== current.approvalStatus
ApprovalChanged(previous, current) ==
    previous.approvalStatus # current.approvalStatus

\* A removal record that keeps the last known status.
MutRemovedStatusKept(previous) == previous.status

\* newStatus of the record of a removed entity
RemovedStatus(previous) == "REMOVED"

RECURSIVE ConcatAll(_, _)
\* the records pushed by iterations i, i+1, ... of a loop, in order
ConcatAll(pushed, i) ==
    IF i > Len(pushed) THEN <<>> ELSE pushed[i] \o ConcatAll(pushed, i + 1)

\* What the first loop of detectStatusChanges (ad tracker) pushes for the
\* property at position i of currentAds.
AdCheckCurrent(previousSnapshot_, currentAds_, i, timestamp) ==
    LET adId == currentAds_[i].key
        current == currentAds_[i].val
    IN  IF ~Has(previousSnapshot_, adId)
        THEN IF NotFirstRun(previousSnapshot_)
             THEN <<[timestamp |-> timestamp,
                     id |-> adId,
                     campaignName |-> current.campaignName,
                     previousStatus |-> "N/A",
                     newStatus |-> current.status,
                     previousApprovalStatus |-> "N/A",
                     newApprovalStatus |-> current.approvalStatus,
                     changeType |-> <<"NEW_AD">>]>>
             ELSE <<>>
        ELSE LET previous == Lookup(previousSnapshot_, adId)
                 statusChanged == StatusChanged(previous, current)
                 approvalChanged == ApprovalChanged(previous, current)
             IN  IF statusChanged \/ approvalChanged
                 THEN <<[timestamp |-> timestamp,
                         id |-> adId,
                         campaignName |-> current.campaignName,
                         previousStatus |-> previous.status,
                         newStatus |-> current.status,
                         previousApprovalStatus |-> previous.approvalStatus,
                         newApprovalStatus |-> current.approvalStatus,
                         changeType |->
                             AdGetChangeType(statusChanged, approvalChanged,
                                 current.status, current.approvalStatus)]>>
                 ELSE <<>>

\* the second loop without its test for the id in currentAds
MutAdCheckRemovedAll(previousSnapshot_, currentAds_, i, timestamp) ==
    LET adId == previousSnapshot_[i].key
        previous == previousSnapshot_[i].val
    IN  <<[timestamp |-> timestamp,
           id |-> adId,
           campaignName |-> previous.campaignName,
           previousStatus |-> previous.status,
           newStatus |-> RemovedStatus(previous),
           previousApprovalStatus |-> previous.approvalStatus,
           newApprovalStatus |-> "N/A",
           changeType |-> <<"AD_REMOVED">>]>>

\* What the second loop of detectStatusChanges (ad tracker) pushes for the
\* property at position i of previousSnapshot.
AdCheckRemoved(previousSnapshot_, currentAds_, i, timestamp) ==
    LET adId == previousSnapshot_[i].key
        previous == previousSnapshot_[i].val
    IN  IF ~Has(currentAds_, adId)
        THEN <<[timestamp |-> timestamp,
                id |-> adId,
                campaignName |-> previous.campaignName,
                previousStatus |-> previous.status,
                newStatus |-> RemovedStatus(previous),
                previousApprovalStatus |-> previous.approvalStatus,
                newApprovalStatus |-> "N/A",
                changeType |-> <<"AD_REMOVED">>]>>
        ELSE <<>>

\* detectStatusChanges of ad-status-tracker.js
AdDetectStatusChanges(previousSnapshot_, currentAds_, timestamp) ==
    ConcatAll([i \in 1..Len(currentAds_) |->
                  AdCheckCurrent(previousSnapshot_, currentAds_, i, timestamp)], 1)
    \o
    ConcatAll([i \in 1..Len(previousSnapshot_) |->
                  AdCheckRemoved(previousSnapshot_, currentAds_, i, timestamp)], 1)

\* First loop of detectStatusChanges (ad group tracker), property i.
AdGroupCheckCurrent(previousSnapshot_, currentAdGroups, i, timestamp) ==
    LET adGroupId == currentAdGroups[i].key
        current == currentAdGroups[i].val
    IN  IF ~Has(previousSnapshot_, adGroupId)
        THEN IF NotFirstRun(previousSnapshot_)
             THEN <<[timestamp |-> timestamp,
                     id |-> adGroupId,
                     campaignName |-> current.campaignName,
                     previousStatus |-> "N/A",
                     newStatus |-> current.status,
                     previousApprovalStatus |-> Undefined,
                     newApprovalStatus |-> Undefined,
                     changeType |-> <<"NEW_ADGROUP">>]>>
             ELSE <<>>
        ELSE LET previous == Lookup(previousSnapshot_, adGroupId)
             IN  IF StatusChanged(previous, current)
                 THEN <<[timestamp |-> timestamp,
                         id |-> adGroupId,
                         campaignName |-> current.campaignName,
                         previousStatus |-> previous.status,
                         newStatus |-> current.status,
                         previousApprovalStatus |-> Undefined,
                         newApprovalStatus |-> Undefined,
                         changeType |-> AdGroupGetChangeType(current.status)]>>
                 ELSE <<>>

\* Second loop of detectStatusChanges (ad group tracker), property i.
AdGroupCheckRemoved(previousSnapshot_, currentAdGroups, i, timestamp) ==
    LET adGroupId == previousSnapshot_[i].key
        previous == previousSnapshot_[i].val
    IN  IF ~Has(currentAdGroups, adGroupId)
        THEN <<[timestamp |-> timestamp,
                id |-> adGroupId,
                campaignName |-> previous.campaignName,
                previousStatus |-> previous.status,
                newStatus |-> RemovedStatus(previous),
                previousApprovalStatus |-> Undefined,
                newApprovalStatus |-> Undefined,
                changeType |-> <<"ADGROUP_REMOVED">>]>>
        ELSE <<>>

\* detectStatusChanges of ad-group-status-tracker.js
AdGroupDetectStatusChanges(previousSnapshot_, currentAdGroups, timestamp) ==
    ConcatAll([i \in 1..Len(currentAdGroups) |->
                  AdGroupCheckCurrent(previousSnapshot_, currentAdGroups, i,
                      timestamp)], 1)
    \o
    ConcatAll([i \in 1..Len(previousSnapshot_) |->
                  AdGroupCheckRemoved(previousSnapshot_, currentAdGroups, i,
                      timestamp)], 1)

\* detectStatusChanges of the tracker that runs
detectStatusChanges(previousSnapshot_, current, timestamp) ==
    IF script = "ad"
    THEN AdDetectStatusChanges(previousSnapshot_, current, timestamp)
    ELSE AdGroupDetectStatusChanges(previousSnapshot_, current, timestamp)

-----------------------------------------------------------------------------
(* Writing the Status Log and the snapshot *)

\* The row logStatusChanges builds for one change record.
LogRow(change) ==
    [tag |-> "data",
     timestamp |-> change.timestamp,
     id |-> change.id,
     campaignName |-> change.campaignName,
     previousStatus |-> change.previousStatus,
     newStatus |-> change.newStatus,
     previousApprovalStatus |-> change.previousApprovalStatus,
     newApprovalStatus |-> change.newApprovalStatus,
     changeType |-> change.changeType]

\* A log writer that always writes from the row below the header.
MutLogFromTop(sheet, changes_) ==
    LET rows == [i \in 1..Len(changes_) |-> LogRow(changes_[i])]
    IN  IF Len(rows) > 0 THEN SetValues(sheet, 2, rows) ELSE sheet

\* logStatusChanges(sheet, changes)
logStatusChanges(sheet, changes_) ==
    LET rows == [i \in 1..Len(changes_) |-> LogRow(changes_[i])]
    IN  IF Len(rows) > 0
        THEN SetValues(sheet, getLastRow(sheet) + 1, rows)
        ELSE sheet

\* A snapshot row whose status column holds the column before it.
MutSnapshotRowShifted(ad, timestamp) ==
    [tag |-> "data",
     id |-> ad.id,
     campaignName |-> ad.campaignName,
     status |-> ad.campaignName,
     approvalStatus |-> ad.approvalStatus,
     lastUpdated |-> timestamp]

\* The row updateAdSnapshot / updateAdGroupSnapshot builds for one entity.
SnapshotRow(ad, timestamp) ==
    [tag |-> "data",
     id |-> ad.id,
     campaignName |-> ad.campaignName,
     status |-> ad.status,
     approvalStatus |-> ad.approvalStatus,
     lastUpdated |-> timestamp]

\* A snapshot update that does not clear the old rows.
MutUpdateNoClear(sheet, currentAds_, timestamp) ==
    LET rows == [i \in 1..Len(currentAds_) |->
                    SnapshotRow(currentAds_[i].val, timestamp)]
    IN  IF Len(rows) > 0 THEN SetValues(sheet, 2, rows) ELSE sheet

\* A snapshot update that clears the old rows only when it has rows to write.
MutUpdateClearsToWrite(sheet, currentAds_, timestamp) ==
    LET lastRow == getLastRow(sheet)
        cleared == IF lastRow > 1 THEN ClearRows(sheet, 2, lastRow - 1)
                   ELSE sheet
        rows == [i \in 1..Len(currentAds_) |->
                    SnapshotRow(currentAds_[i].val, timestamp)]
    IN  IF Len(rows) > 0 THEN SetValues(cleared, 2, rows) ELSE sheet

\* updateAdSnapshot(sheet, currentAds) and updateAdGroupSnapshot
updateAdSnapshot(sheet, currentAds_, timestamp) ==
    LET lastRow == getLastRow(sheet)
        cleared == IF lastRow > 1 THEN ClearRows(sheet, 2, lastRow - 1)
                   ELSE sheet
        rows == [i \in 1..Len(currentAds_) |->
                    SnapshotRow(currentAds_[i].val, timestamp)]
    IN  IF Len(rows) > 0 THEN SetValues(cleared, 2, rows) ELSE cleared

\* The snapshot sheet when updateAdSnapshot is left before its end: before
\* its clear(), or between its clear() and its setValues().
LeftUpdateAdSnapshot(sheet) ==
    LET lastRow == getLastRow(sheet)
    IN  {sheet,
         IF lastRow > 1 THEN ClearRows(sheet, 2, lastRow - 1) ELSE sheet}

-----------------------------------------------------------------------------
(* The summary of the alert *)

\* The characters of the string literals change types are made of.
Chars(s) ==
    CASE s = "ENABLED" -> <<"E", "N", "A", "B", "L", "E", "D">>
      [] s = "PAUSED" -> <<"P", "A", "U", "S", "E", "D">>
      [] s = "REMOVED" -> <<"R", "E", "M", "O", "V", "E", "D">>
      [] s = "STATUS_CHANGED" ->
            <<"S", "T", "A", "T", "U", "S", "_",
              "C", "H", "A", "N", "G", "E", "D">>
      [] s = "DISAPPROVED" ->
            <<"D", "I", "S", "A", "P", "P", "R", "O", "V", "E", "D">>
      [] s = "APPROVED" -> <<"A", "P", "P", "R", "O", "V", "E", "D">>
      [] s = "APPROVED_LIMITED" ->
            <<"A", "P", "P", "R", "O", "V", "E", "D",
              "_", "L", "I", "M", "I", "T", "E", "D">>
      [] s = "AREA_OF_INTEREST_ONLY" ->
            <<"A", "R", "E", "A", "_", "O", "F", "_", "I", "N",
              "T", "E", "R", "E", "S", "T", "_", "O", "N", "L", "Y">>
      [] s = "UNDER_REVIEW" ->
            <<"U", "N", "D", "E", "R", "_", "R", "E", "V", "I", "E", "W">>
      [] s = "APPROVAL_CHANGED" ->
            <<"A", "P", "P", "R", "O", "V", "A", "L",
              "_", "C", "H", "A", "N", "G", "E", "D">>
      [] s = " + " -> <<" ", "+", " ">>
      [] s = "NEW_AD" -> <<"N", "E", "W", "_", "A", "D">>
      [] s = "AD_REMOVED" ->
            <<"A", "D", "_", "R", "E", "M", "O", "V", "E", "D">>
      [] s = "NEW_ADGROUP" ->
            <<"N", "E", "W", "_", "A", "D", "G", "R", "O", "U", "P">>
      [] s = "ADGROUP_REMOVED" ->
            <<"A", "D", "G", "R", "O", "U", "P",
              "_", "R", "E", "M", "O", "V", "E", "D">>

RECURSIVE Render(_)
\* the characters of a change type
Render(changeType) ==
    IF changeType = <<>> THEN <<>>
    ELSE Chars(Head(changeType)) \o Render(Tail(changeType))

\* changeType.indexOf(literal) !== -1
Contains(changeType, literal) ==
    LET h == Render(changeType)
        n == Chars(literal)
    IN  \E i \in 0..(Len(h) - Len(n)) : SubSeq(h, i + 1, i + Len(n)) = n

\* changeType === literal
Equals(changeType, literal) == Render(changeType) = Chars(literal)

\* the if-chain with the test for APPROVED moved before the tests for the
\* approval statuses that contain it
MutAdCategoryApprovedFirst(changeType) ==
    IF Equals(changeType, "NEW_AD") THEN "newAds"
    ELSE IF Contains(changeType, "ENABLED") THEN "enabled"
    ELSE IF Contains(changeType, "PAUSED") THEN "paused"
    ELSE IF Equals(changeType, "AD_REMOVED") \/ Contains(changeType, "REMOVED")
         THEN "removed"
    ELSE IF Contains(changeType, "APPROVED") THEN "approved"
    ELSE IF Contains(changeType, "DISAPPROVED") THEN "disapproved"
    ELSE IF Contains(changeType, "APPROVED_LIMITED") THEN "approvedLimited"
    ELSE IF Contains(changeType, "AREA_OF_INTEREST_ONLY")
         THEN "areaOfInterestOnly"
    ELSE IF Contains(changeType, "UNDER_REVIEW") THEN "underReview"
    ELSE "other"

\* The counter the if-chain of categorizeChanges (ad tracker) increments.
AdCategory(changeType) ==
    IF Equals(changeType, "NEW_AD") THEN "newAds"
    ELSE IF Contains(changeType, "ENABLED") THEN "enabled"
    ELSE IF Contains(changeType, "PAUSED") THEN "paused"
    ELSE IF Equals(changeType, "AD_REMOVED") \/ Contains(changeType, "REMOVED")
         THEN "removed"
    ELSE IF Contains(changeType, "DISAPPROVED") THEN "disapproved"
    ELSE IF Contains(changeType, "APPROVED_LIMITED") THEN "approvedLimited"
    ELSE IF Contains(changeType, "AREA_OF_INTEREST_ONLY")
         THEN "areaOfInterestOnly"
    ELSE IF Contains(changeType, "APPROVED") THEN "approved"
    ELSE IF Contains(changeType, "UNDER_REVIEW") THEN "underReview"
    ELSE "other"

\* The counter the if-chain of categorizeChanges (ad group tracker)
\* increments.
AdGroupCategory(changeType) ==
    IF Equals(changeType, "NEW_ADGROUP") THEN "newAdGroups"
    ELSE IF Equals(changeType, "ENABLED") THEN "enabled"
    ELSE IF Equals(changeType, "PAUSED") THEN "paused"
    ELSE IF Equals(changeType, "ADGROUP_REMOVED")
            \/ Equals(changeType, "REMOVED")
         THEN "removed"
    ELSE "other"

AdCategories ==
    {"enabled", "paused", "removed", "disapproved", "approved",
     "approvedLimited", "areaOfInterestOnly", "underReview", "newAds", "other"}

AdGroupCategories == {"enabled", "paused", "removed", "newAdGroups", "other"}

\* An if-chain without its final else.
MutIncrementsNoElse(changeType) ==
    LET c == IF script = "ad" THEN AdCategory(changeType)
             ELSE AdGroupCategory(changeType)
    IN  IF c = "other" THEN {} ELSE {c}

\* The counters one record increments.
Increments(changeType) ==
    IF script = "ad" THEN {AdCategory(changeType)}
    ELSE {AdGroupCategory(changeType)}

RECURSIVE Categorize(_, _, _)
\* the loop of categorizeChanges from record i on
Categorize(changes_, i, counts) ==
    IF i > Len(changes_) THEN counts
    ELSE Categorize(changes_, i + 1,
             [c \in DOMAIN counts |->
                 IF c \in Increments(changes_[i].changeType)
                 THEN counts[c] + 1 ELSE counts[c]])

\* categorizeChanges(changes)
categorizeChanges(changes_) ==
    Categorize(changes_, 1,
        [c \in (IF script = "ad" THEN AdCategories ELSE AdGroupCategories)
            |-> 0])

-----------------------------------------------------------------------------
(* The Slack alert *)

\* AdsApp.currentAccount().getCustomerId()
AccountId == "123-456-7890"

\* The value of SLACK_HELPER_SPREADSHEET_URL as the scripts ship it.
Placeholder == "YOUR_SLACK_HELPER_SPREADSHEET_URL_HERE"

Null == <<>>

RECURSIVE TrimLeft(_)
\* A cell text is a sequence of pieces; " " is white space.
TrimLeft(text) ==
    IF text # <<>> /\ Head(text) = " " THEN TrimLeft(Tail(text)) ELSE text

RECURSIVE TrimRight(_)
TrimRight(text) ==
    IF text # <<>> /\ text[Len(text)] = " "
    THEN TrimRight(SubSeq(text, 1, Len(text) - 1)) ELSE text

\* text.toString().trim()
TrimText(text) == TrimRight(TrimLeft(text))

RECURSIVE MutFirstMatchNoTrim(_, _)
\* the loop comparing the account cell as it is
MutFirstMatchNoTrim(data, i) ==
    IF i > Len(data) THEN Null
    ELSE IF data[i][1] # <<>> /\ data[i][1] = <<AccountId>>
         THEN TrimText(data[i][2])
    ELSE MutFirstMatchNoTrim(data, i + 1)

RECURSIVE FirstMatch(_, _)
\* the for loop of getSlackWebhookUrl over the rows read, from row i on
FirstMatch(data, i) ==
    IF i > Len(data) THEN Null
    ELSE IF data[i][1] # <<>> /\ TrimText(data[i][1]) = <<AccountId>>
         THEN TrimText(data[i][2])
    ELSE FirstMatch(data, i + 1)

\* getSlackWebhookUrl() for a helper spreadsheet h: its configured url,
\* whether opening or reading it throws, whether it has the sheet, and the
\* rows of the sheet below the header row.
getSlackWebhookUrl(h) ==
    IF h.url = "" \/ h.url = Placeholder THEN Null
    ELSE IF h.throws THEN Null
    ELSE IF ~h.hasSheet THEN Null
    ELSE IF Len(h.rows) + 1 <= 1 THEN Null
    ELSE FirstMatch(h.rows, 1)

\* The posts of sendSlackNotification(webhookUrl, message): one call of
\* UrlFetchApp.fetch, which may throw, unless the url is empty.
sendSlackNotification(webhookUrl, message, fetchThrows) ==
    IF webhookUrl = Null THEN <<>>
    ELSE <<[url |-> webhookUrl, message |-> message,
            delivered |-> ~fetchThrows]>>

\* The posts of sendSlackAlert(changes); the message is given by the
\* counts of its summary lines and its total.
sendSlackAlert(changes_, h, fetchThrows) ==
    LET webhookUrl == getSlackWebhookUrl(h)
    IN  IF webhookUrl = Null THEN <<>>
        ELSE sendSlackNotification(webhookUrl,
                 [summary |-> categorizeChanges(changes_),
                  total |-> Len(changes_)],
                 fetchThrows)

\* The helper spreadsheets of the model.
HelperRows ==
    { <<>>,
      << <<<<"999-999-9999">>, <<"hookX">>>> >>,
      << <<<<AccountId>>, <<>>>>, <<<<AccountId>>, <<"hookB">>>> >>,
      << <<<<>>, <<"hookX">>>>, <<<<" ", AccountId, " ">>, <<" ", "hookA">>>>,
         <<<<AccountId>>, <<"hookB">>>> >> }

Helpers ==
    { [url |-> u, throws |-> FALSE, hasSheet |-> FALSE, rows |-> <<>>] :
          u \in {"", Placeholder, "helper"} }
    \cup { [url |-> "helper", throws |-> TRUE, hasSheet |-> TRUE, rows |-> <<>>] }
    \cup { [url |-> "helper", throws |-> FALSE, hasSheet |-> TRUE, rows |-> r] :
               r \in HelperRows }

-----------------------------------------------------------------------------
(* The rows the account query can yield *)

Statuses == {"ENABLED", "PAUSED"}

\* status and approval status of the ads of the account; "" is an approval
\* status that is empty or missing in the policySummary of the row
AdStates ==
    {<<"ENABLED", "APPROVED">>, <<"ENABLED", "">>,
     <<"ENABLED", NoPolicySummary>>}

FetchRows ==
    IF script = "ad"
    THEN {[id |-> i, campaignName |-> "c1", status |-> st[1],
           approvalStatus |-> st[2]] : i \in Ids, st \in AdStates}
    ELSE {[id |-> i, campaignName |-> "c1", status |-> st,
           approvalStatus |-> Undefined] : i \in Ids, st \in Statuses}

\* Whether the body of the fetch loop of the tracker that runs throws on the
\* row; the ad group tracker reads no policySummary.
RowThrows(row) == script = "ad" /\ AdRowThrows(row)

\* The body of the fetch loop of the tracker that runs, on a row on which it
\* does not throw.
EntityOfRow(obj, row) ==
    IF script = "ad" THEN AdOfRow(obj, row) ELSE AdGroupOfRow(obj, row)

NoSummary == [c \in {"none"} |-> 0]

\* The snapshot an earlier run has left when the account had two entities.
BaselineRows ==
    <<[id |-> BigId, campaignName |-> "c1", status |-> "ENABLED",
       approvalStatus |-> IF script = "ad" THEN "APPROVED" ELSE Undefined],
      [id |-> SmallId, campaignName |-> "c1",
       status |-> IF script = "ad" THEN "ENABLED" ELSE "PAUSED",
       approvalStatus |-> IF script = "ad" THEN "" ELSE Undefined]>>

BaselineAds ==
    EntityOfRow(EntityOfRow(EmptyObject, BaselineRows[1]), BaselineRows[2])

-----------------------------------------------------------------------------
(* main() *)

\* try { ... } catch (e) { Logger.log(...) }: an error thrown in the body
\* leaves the statement only when the catch block throws as well.
TryCatch(bodyThrows, catchThrows) == bodyThrows /\ catchThrows

\* the fetcher without its try statement
MutFetchRaises(queryThrows) == queryThrows

\* Whether getCurrentAdStatuses throws to main when AdsApp.search or the
\* iterator throws: the catch block only logs.
FetchRaises(queryThrows) == TryCatch(queryThrows, FALSE)

\* the lookup without its try statement
MutLookupRaises(h) == h.url # "" /\ h.url # Placeholder /\ h.throws

\* Whether getSlackWebhookUrl throws to its caller when reading the helper
\* spreadsheet throws: the catch block logs and returns null.
LookupRaises(h) ==
    h.url # "" /\ h.url # Placeholder /\ TryCatch(h.throws, FALSE)

\* the post without its try statement
MutPostRaises(webhookUrl, fetchThrows) == webhookUrl # Null /\ fetchThrows

\* Whether sendSlackNotification throws to its caller when UrlFetchApp.fetch
\* throws: the catch block only logs.
PostRaises(webhookUrl, fetchThrows) ==
    webhookUrl # Null /\ TryCatch(fetchThrows, FALSE)

\* Whether sendSlackAlert(changes) throws to main, which has no try.
AlertRaises(h, fetchThrows) ==
    \/ LookupRaises(h)
    \/ PostRaises(getSlackWebhookUrl(h), fetchThrows)

Init ==
    /\ script \in {"ad", "adgroup"}
    /\ pc = "idle"
    /\ runs = 0
    /\ \/ /\ logSheet = Absent
          /\ snapSheet = Absent
          /\ everCompleted = FALSE
          /\ lastCompleted = FALSE
       \/ /\ logSheet = getOrCreateSheet(Absent)
          /\ snapSheet =
                 updateAdSnapshot(getOrCreateSheet(Absent), BaselineAds, 0)
          /\ everCompleted = TRUE
          /\ lastCompleted = TRUE
    /\ previousSnapshot = EmptyObject
    /\ currentAds = EmptyObject
    /\ fetched = 0
    /\ fetchError = FALSE
    /\ changes = <<>>
    /\ posts = <<>>
    /\ summary = NoSummary
    /\ outcome = "none"
    /\ lastSaved = getAdSnapshot(snapSheet)
    /\ fetchOrder = <<>>
    /\ helper = <<>>
    /\ lastRemoved = {}
    /\ abortedRun = <<>>

\* The scheduler invokes main().
StartRun ==
    /\ pc = "idle"
    /\ runs < MaxRuns
    /\ pc' = "starting"
    /\ runs' = runs + 1
    /\ previousSnapshot' = EmptyObject
    /\ currentAds' = EmptyObject
    /\ fetched' = 0
    /\ fetchError' = FALSE
    /\ changes' = <<>>
    /\ posts' = <<>>
    /\ summary' = NoSummary
    /\ outcome' = "running"
    /\ fetchOrder' = <<>>
    /\ helper' = <<>>
    /\ UNCHANGED <<script, logSheet, snapSheet, lastSaved,
                   everCompleted, lastRemoved,
                   lastCompleted, abortedRun>>

\* SpreadsheetApp.openByUrl and the two calls of getOrCreateSheet
PrepareSheets ==
    /\ pc = "starting"
    /\ logSheet' = getOrCreateSheet(logSheet)
    /\ snapSheet' = getOrCreateSheet(snapSheet)
    /\ pc' = "loading"
    /\ UNCHANGED <<script, runs, previousSnapshot, currentAds, fetched,
                   fetchError, changes, posts, summary, outcome, lastSaved,
                   everCompleted, fetchOrder, helper, lastRemoved,
                   lastCompleted, abortedRun>>

\* previousSnapshot = getAdSnapshot(snapshotSheet)
LoadSnapshot ==
    /\ pc = "loading"
    /\ previousSnapshot' = getAdSnapshot(snapSheet)
    /\ pc' = "fetching"
    /\ UNCHANGED <<script, runs, logSheet, snapSheet, currentAds, fetched,
                   fetchError, changes, posts, summary, outcome, lastSaved,
                   everCompleted, fetchOrder, helper, lastRemoved,
                   lastCompleted, abortedRun>>

\* The locals of a run that ended without returning are gone; the sheets
\* are as the calls that have returned left them.
EndedEarly(how) ==
    /\ pc' = "idle"
    /\ outcome' = how
    /\ previousSnapshot' = EmptyObject
    /\ currentAds' = EmptyObject
    /\ fetched' = 0
    /\ changes' = <<>>
    /\ summary' = NoSummary
    /\ fetchOrder' = <<>>
    /\ lastRemoved' = {}
    /\ lastCompleted' = FALSE
    /\ UNCHANGED <<script, runs, posts, lastSaved, everCompleted>>

\* One iteration of the while loop of getCurrentAdStatuses: results.next()
\* yields a row and the body stores its entity, or the body throws, the loop
\* is left through the catch and getCurrentAdStatuses returns what it has.
FetchRow ==
    /\ pc = "fetching"
    /\ fetched < MaxFetch
    /\ \E row \in FetchRows :
           IF RowThrows(row)
           THEN /\ fetchError' = TRUE
                /\ IF FetchRaises(TRUE)
                   THEN /\ EndedEarly("failed")
                        /\ UNCHANGED <<logSheet, snapSheet, helper>>
                        /\ abortedRun' = <<>>
                   ELSE /\ fetched' = fetched + 1
                        /\ pc' = "fetched"
                        /\ UNCHANGED <<script, runs, logSheet, snapSheet,
                                       previousSnapshot, currentAds, changes,
                                       posts, summary, outcome, lastSaved,
                                       everCompleted, fetchOrder, helper,
                                       lastRemoved, lastCompleted, abortedRun>>
           ELSE /\ currentAds' = EntityOfRow(currentAds, row)
                /\ fetchOrder' = IF Has(currentAds, row.id) THEN fetchOrder
                                 ELSE Append(fetchOrder, row.id)
                /\ fetched' = fetched + 1
                /\ UNCHANGED <<script, pc, runs, logSheet, snapSheet,
                               previousSnapshot, fetchError, changes, posts,
                               summary, outcome, lastSaved, everCompleted,
                               helper, lastRemoved, lastCompleted, abortedRun>>

\* results.hasNext() is false: getCurrentAdStatuses returns.
FetchDone ==
    /\ pc = "fetching"
    /\ pc' = "fetched"
    /\ UNCHANGED <<script, runs, logSheet, snapSheet, previousSnapshot,
                   currentAds, fetched, fetchError, changes, posts, summary,
                   outcome, lastSaved,
                   everCompleted, fetchOrder, helper, lastRemoved,
                   lastCompleted, abortedRun>>

\* AdsApp.search or the iterator throws: the catch logs the error and
\* getCurrentAdStatuses returns what it has.
FetchFails ==
    /\ pc = "fetching"
    /\ fetchError' = TRUE
    /\ IF FetchRaises(TRUE)
       THEN /\ EndedEarly("failed")
            /\ UNCHANGED <<logSheet, snapSheet, helper>>
            /\ abortedRun' = <<>>
       ELSE /\ pc' = "fetched"
            /\ UNCHANGED <<script, runs, logSheet, snapSheet,
                           previousSnapshot, currentAds, fetched, changes,
                           posts, summary, outcome, lastSaved, everCompleted,
                           fetchOrder, helper, lastRemoved,
                           lastCompleted, abortedRun>>

\* changes = detectStatusChanges(previousSnapshot, currentAds)
Detect ==
    /\ pc = "fetched"
    /\ changes' = detectStatusChanges(previousSnapshot, currentAds, runs)
    /\ pc' = "detected"
    /\ UNCHANGED <<script, runs, logSheet, snapSheet, previousSnapshot,
                   currentAds, fetched, fetchError, posts, summary, outcome,
                   lastSaved,
                   everCompleted, fetchOrder, helper, lastRemoved,
                   lastCompleted, abortedRun>>

\* changes.length > 0: logStatusChanges(statusLogSheet, changes)
LogChanges ==
    /\ pc = "detected"
    /\ Len(changes) > 0
    /\ logSheet' = logStatusChanges(logSheet, changes)
    /\ pc' = "logged"
    /\ fetchOrder' = <<>>
    /\ fetched' = 0
    /\ UNCHANGED <<script, runs, snapSheet, previousSnapshot, currentAds,
                   fetchError, changes, posts, summary, outcome,
                   lastSaved, everCompleted, helper, lastRemoved,
                   lastCompleted, abortedRun>>

\* changes.length > 0: sendSlackAlert(changes)
SendAlert ==
    /\ pc = "logged"
    /\ \E h \in Helpers, fetchThrows \in BOOLEAN :
           \* UrlFetchApp.fetch is only called with a url
           /\ getSlackWebhookUrl(h) = Null => ~fetchThrows
           /\ helper' = <<h>>
           /\ IF AlertRaises(h, fetchThrows)
              THEN /\ EndedEarly("failed")
                   /\ fetchError' = FALSE
                   /\ abortedRun' = <<>>
                   /\ UNCHANGED <<logSheet, snapSheet>>
              ELSE /\ posts' = sendSlackAlert(changes, h, fetchThrows)
                   /\ summary' = IF getSlackWebhookUrl(h) = Null THEN summary
                                 ELSE categorizeChanges(changes)
                   /\ pc' = "saving"
                   /\ UNCHANGED <<script, runs, logSheet, snapSheet,
                                  previousSnapshot, currentAds, fetched,
                                  fetchError, changes, outcome, lastSaved,
                                  everCompleted, fetchOrder, lastRemoved,
                                  lastCompleted, abortedRun>>

\* changes.length = 0: nothing is logged and no alert is sent
NoChanges ==
    /\ pc = "detected"
    /\ Len(changes) = 0
    /\ pc' = "saving"
    /\ fetchOrder' = <<>>
    /\ fetched' = 0
    /\ UNCHANGED <<script, runs, logSheet, snapSheet, previousSnapshot,
                   currentAds, fetchError, changes, posts, summary,
                   outcome, lastSaved, everCompleted, helper, lastRemoved,
                   lastCompleted, abortedRun>>

\* updateAdSnapshot(snapshotSheet, currentAds); main returns
UpdateSnapshot ==
    /\ pc = "saving"
    /\ snapSheet' = updateAdSnapshot(snapSheet, currentAds, runs)
    /\ lastSaved' = currentAds
    /\ everCompleted' = TRUE
    /\ lastCompleted' = TRUE
    /\ lastRemoved' = Keys(previousSnapshot) \ Keys(currentAds)
    /\ outcome' = "completed"
    /\ pc' = "idle"
    /\ helper' = <<>>
    /\ abortedRun' = <<>>
    /\ UNCHANGED <<script, runs, logSheet, previousSnapshot, currentAds,
                   fetched, fetchError, changes, posts, summary, fetchOrder>>

\* The two sheets when the statement of main that runs is left before its
\* end: the writes that have returned stay.  getAdSnapshot only reads,
\* logStatusChanges makes one write, its last call.
LeftSheets ==
    CASE pc = "starting" -> LeftPrepareSheets(logSheet, snapSheet)
      [] pc = "saving" ->
             {<<logSheet, s>> : s \in LeftUpdateAdSnapshot(snapSheet)}
      [] OTHER -> {<<logSheet, snapSheet>>}

\* The two sheets when the host ends the run in the statement of main that
\* runs: as LeftSheets, or, in the last statement, after the setValues() of
\* updateAdSnapshot has returned and before main returns (the calls of
\* Logger.log that follow).
EndedSheets ==
    LeftSheets
    \cup (IF pc = "saving"
          THEN {<<logSheet, updateAdSnapshot(snapSheet, currentAds, runs)>>}
          ELSE {})

\* An operation on the spreadsheet throws; main has no try, the run ends.
StoreFails ==
    /\ \/ pc \in {"starting", "loading", "saving"}
       \/ pc = "detected" /\ Len(changes) > 0
    /\ EndedEarly("failed")
    /\ \E left \in LeftSheets : logSheet' = left[1] /\ snapSheet' = left[2]
    /\ fetchError' = FALSE
    /\ helper' = <<>>
    /\ abortedRun' = <<>>

\* The host ends the run at its execution time limit; the sheets stay as the
\* calls that have returned left them.  abortedRun is for a run ended before
\* its snapshot overwrite has written.
HostAborts ==
    /\ pc \notin {"idle"}
    /\ EndedEarly("aborted")
    /\ \E left \in EndedSheets : logSheet' = left[1] /\ snapSheet' = left[2]
    /\ fetchError' = FALSE
    /\ helper' = <<>>
    /\ abortedRun' = IF /\ pc \in {"logged", "saving"}
                        /\ Len(changes) > 0
                        /\ snapSheet' = snapSheet
                     THEN <<[previous |-> previousSnapshot,
                             fetched |-> currentAds,
                             changes |-> changes]>>
                     ELSE <<>>

Next ==
    \/ StartRun
    \/ PrepareSheets
    \/ LoadSnapshot
    \/ FetchRow
    \/ FetchDone
    \/ FetchFails
    \/ Detect
    \/ LogChanges
    \/ SendAlert
    \/ NoChanges
    \/ UpdateSnapshot
    \/ StoreFails
    \/ HostAborts

Spec == Init /\ [][Next]_vars

-----------------------------------------------------------------------------
(* Change detection and the summary over a wide range of snapshots *)

DetectStatuses == {"ENABLED", "PAUSED", "REMOVED", "UNKNOWN"}

DetectApprovals ==
    {"DISAPPROVED", "APPROVED", "APPROVED_LIMITED", "AREA_OF_INTEREST_ONLY",
     "UNDER_REVIEW", "UNSPECIFIED", ""}

DetectCampaigns == {"c1", "c2"}

\* rows of the query of the current run
DetectRows ==
    IF script = "ad"
    THEN [id : Ids, campaignName : DetectCampaigns, status : DetectStatuses,
          approvalStatus : DetectApprovals]
    ELSE [id : Ids, campaignName : DetectCampaigns, status : DetectStatuses,
          approvalStatus : {Undefined}]

\* rows of the query of the run that wrote the snapshot
EarlierRows ==
    IF script = "ad"
    THEN {[id |-> i, campaignName |-> "c1", status |-> st[1],
           approvalStatus |-> st[2]] :
              i \in Ids, st \in {<<"ENABLED", "APPROVED">>, <<"PAUSED", "">>}}
    ELSE {[id |-> i, campaignName |-> "c1", status |-> st,
           approvalStatus |-> Undefined] : i \in Ids, st \in Statuses}

\* the mappings a fetch of at most two rows returns
Fetched(rows) ==
    {EmptyObject}
    \cup {EntityOfRow(EmptyObject, r) : r \in rows}
    \cup {EntityOfRow(EntityOfRow(EmptyObject, r1), r2) : r1 \in rows, r2 \in rows}

\* the sequences of at most two rows a query yields
RowSeqs(rows) ==
    {<<>>} \cup {<<r>> : r \in rows} \cup {<<r1, r2>> : r1 \in rows, r2 \in rows}

\* the mapping the fetch loop builds from the rows in the order read
FetchAll(rows) ==
    IF Len(rows) = 0 THEN EmptyObject
    ELSE IF Len(rows) = 1 THEN EntityOfRow(EmptyObject, rows[1])
    ELSE EntityOfRow(EntityOfRow(EmptyObject, rows[1]), rows[2])

\* the ids of the rows in the order in which they were first read
FirstYields(rows) ==
    IF Len(rows) = 0 THEN <<>>
    ELSE IF Len(rows) = 1 \/ rows[1].id = rows[2].id THEN <<rows[1].id>>
    ELSE <<rows[1].id, rows[2].id>>

InitDetect ==
    /\ script \in {"ad", "adgroup"}
    /\ pc = "fetched"
    /\ runs = 1
    /\ logSheet = getOrCreateSheet(Absent)
    /\ \E earlier \in Fetched(EarlierRows) :
           snapSheet = updateAdSnapshot(getOrCreateSheet(Absent), earlier, 0)
    /\ previousSnapshot = getAdSnapshot(snapSheet)
    /\ \E rows \in RowSeqs(DetectRows) :
           /\ currentAds = FetchAll(rows)
           /\ fetched = Len(rows)
           /\ fetchOrder = FirstYields(rows)
    /\ fetchError = FALSE
    /\ changes = <<>>
    /\ posts = <<>>
    /\ summary = NoSummary
    /\ outcome = "running"
    /\ lastSaved = previousSnapshot
    /\ everCompleted = TRUE
    /\ lastCompleted = TRUE
    /\ helper = <<>>
    /\ lastRemoved = {}
    /\ abortedRun = <<>>

\* Lines 87-98 of main, from the detection to the call of updateAdSnapshot:
\* with changes logStatusChanges and sendSlackAlert, which returns at its
\* line 488 when no webhook is found and computes the summary at line 495
\* otherwise; without changes neither is called.
NextDetect ==
    \/ Detect
    \/ LogChanges
    \/ NoChanges
    \/ SendAlert

SpecDetect == InitDetect /\ [][NextDetect]_vars

-----------------------------------------------------------------------------
(* Properties of change detection *)

\* main holds the result of detectStatusChanges
Detected ==
    \/ pc \in {"detected", "logged", "saving"}
    \/ pc = "idle" /\ outcome = "completed"

\* the positions in changes of the records of an id
RecordsOf(id) == {i \in 1..Len(changes) : changes[i].id = id}

\* the rows the Status Log got in the current run
RunRows ==
    {r \in 1..Len(logSheet.rows) :
        logSheet.rows[r].tag = "data" /\ logSheet.rows[r].timestamp = runs}

NewIds == Keys(currentAds) \ Keys(previousSnapshot)

RemovedIds == Keys(previousSnapshot) \ Keys(currentAds)

KeptIds == Keys(currentAds) \cap Keys(previousSnapshot)

\* C1: when the snapshot loaded by a run is empty, detectStatusChanges
\* returns no record whatever was fetched, and the run appends no row to the
\* Status Log and sends no alert.
C1_FirstRunSuppression ==
    (Detected /\ previousSnapshot = EmptyObject) =>
        /\ changes = <<>>
        /\ RunRows = {}
        /\ posts = <<>>

C1_Witness ==
    /\ pc = "idle"
    /\ outcome = "completed"
    /\ previousSnapshot = EmptyObject
    /\ Len(currentAds) = 2

\* C2: with a non-empty previous snapshot, every id of current that previous
\* does not have gets exactly one record, of type NEW_AD / NEW_ADGROUP, with
\* previousStatus "N/A" and the current status as newStatus.
C2_NewEntityRecord ==
    (Detected /\ previousSnapshot # EmptyObject) =>
        \A id \in NewIds :
            /\ Cardinality(RecordsOf(id)) = 1
            /\ \A i \in RecordsOf(id) :
                   /\ changes[i].changeType =
                          IF script = "ad" THEN <<"NEW_AD">>
                          ELSE <<"NEW_ADGROUP">>
                   /\ changes[i].previousStatus = "N/A"
                   /\ changes[i].newStatus = Lookup(currentAds, id).status

\* a new id next to a snapshot that has only another id
C2_Witness ==
    /\ pc = "detected"
    /\ Len(previousSnapshot) = 1
    /\ Len(currentAds) = 2
    /\ NewIds # {}
    /\ KeptIds # {}

\* C3: every id of previous that current does not have gets exactly one
\* record, of type AD_REMOVED / ADGROUP_REMOVED, with the last known status
\* as previousStatus and "REMOVED" as newStatus; the ad tracker sets
\* newApprovalStatus to "N/A".
C3_RemovedEntityRecord ==
    Detected =>
        \A id \in RemovedIds :
            /\ Cardinality(RecordsOf(id)) = 1
            /\ \A i \in RecordsOf(id) :
                   /\ changes[i].changeType =
                          IF script = "ad" THEN <<"AD_REMOVED">>
                          ELSE <<"ADGROUP_REMOVED">>
                   /\ changes[i].previousStatus =
                          Lookup(previousSnapshot, id).status
                   /\ changes[i].newStatus = "REMOVED"
                   /\ script = "ad" => changes[i].newApprovalStatus = "N/A"

\* a paused entity is gone and nothing was fetched
C3_Witness ==
    /\ pc = "detected"
    /\ currentAds = EmptyObject
    /\ \E id \in RemovedIds : Lookup(previousSnapshot, id).status = "PAUSED"

\* the tracked fields of an id differ between the two snapshots
Differs(id) ==
    LET previous == Lookup(previousSnapshot, id)
        current == Lookup(currentAds, id)
    IN  \/ previous.status # current.status
        \/ script = "ad" /\ previous.approvalStatus # current.approvalStatus

\* C4: an id in both snapshots gets exactly one record, with the status and
\* approval status of both snapshots, when its status or (ad tracker) its
\* approval status differs, and no record when both are equal, whatever the
\* other fields are.
C4_KeptEntityRecord ==
    Detected =>
        \A id \in KeptIds :
            LET previous == Lookup(previousSnapshot, id)
                current == Lookup(currentAds, id)
            IN  IF Differs(id)
                THEN /\ Cardinality(RecordsOf(id)) = 1
                     /\ \A i \in RecordsOf(id) :
                            /\ changes[i].previousStatus = previous.status
                            /\ changes[i].newStatus = current.status
                            /\ script = "ad" =>
                                   /\ changes[i].previousApprovalStatus =
                                          previous.approvalStatus
                                   /\ changes[i].newApprovalStatus =
                                          current.approvalStatus
                ELSE RecordsOf(id) = {}

\* one ad only changed its campaign name, the other only its approval status
C4_Witness ==
    /\ pc = "detected"
    /\ script = "ad"
    /\ \E id \in KeptIds :
           /\ ~Differs(id)
           /\ Lookup(previousSnapshot, id).campaignName
                  # Lookup(currentAds, id).campaignName
    /\ \E id \in KeptIds :
           /\ Lookup(previousSnapshot, id).status = Lookup(currentAds, id).status
           /\ Differs(id)

KnownStatuses == {"ENABLED", "PAUSED", "REMOVED"}

KnownApprovals ==
    {"DISAPPROVED", "APPROVED", "APPROVED_LIMITED", "AREA_OF_INTEREST_ONLY",
     "UNDER_REVIEW"}

\* C5: the changeType of the record of an id in both snapshots is the status
\* fragment (the new status if it is ENABLED, PAUSED or REMOVED, else
\* STATUS_CHANGED; only if the status changed), then " + " if both apply,
\* then in the ad tracker the approval fragment (the new approval status if
\* it is one of the five known values, else APPROVAL_CHANGED; only if the
\* approval status changed); it is never empty.
C5_ChangeTypeOfRecord ==
    Detected =>
        \A id \in KeptIds : \A i \in RecordsOf(id) :
            LET previous == Lookup(previousSnapshot, id)
                current == Lookup(currentAds, id)
                hasStatus == previous.status # current.status
                hasApproval ==
                    /\ script = "ad"
                    /\ previous.approvalStatus # current.approvalStatus
                statusPart ==
                    IF current.status \in KnownStatuses THEN current.status
                    ELSE "STATUS_CHANGED"
                approvalPart ==
                    IF current.approvalStatus \in KnownApprovals
                    THEN current.approvalStatus
                    ELSE "APPROVAL_CHANGED"
            IN  /\ changes[i].changeType # <<>>
                /\ hasStatus /\ hasApproval =>
                       changes[i].changeType = <<statusPart, " + ", approvalPart>>
                /\ hasStatus /\ ~hasApproval =>
                       changes[i].changeType = <<statusPart>>
                /\ ~hasStatus /\ hasApproval =>
                       changes[i].changeType = <<approvalPart>>

\* ENABLED and APPROVED became PAUSED and DISAPPROVED
C5_Witness ==
    /\ pc = "detected"
    /\ \E i \in 1..Len(changes) :
           changes[i].changeType = <<"PAUSED", " + ", "DISAPPROVED">>
    /\ \E i \in 1..Len(changes) :
           changes[i].changeType = <<"STATUS_CHANGED", " + ", "APPROVAL_CHANGED">>

\* sendSlackAlert found a webhook and went past its line 495,
\* var summary = categorizeChanges(changes)
Summarized == pc = "saving" /\ summary # NoSummary

RECURSIVE SumOver(_, _)
\* the sum of the counts of the categories in cats
SumOver(counts, cats) ==
    IF cats = {} THEN 0
    ELSE LET c == CHOOSE x \in cats : TRUE
         IN  counts[c] + SumOver(counts, cats \ {c})

\* C9: the counts categorizeChanges returns for N records are those of the
\* categories of the tracker and add up to N.
C9_SummaryCountsAddUp ==
    /\ Summarized =>
           /\ DOMAIN summary =
                  IF script = "ad" THEN AdCategories ELSE AdGroupCategories
           /\ \A c \in DOMAIN summary : summary[c] \in 0..Len(changes)
           /\ SumOver(summary, DOMAIN summary) = Len(changes)
    \* N = 0, a list main never passes: every count is 0
    /\ LET none == categorizeChanges(<<>>)
       IN  /\ DOMAIN none =
                  IF script = "ad" THEN AdCategories ELSE AdGroupCategories
           /\ \A c \in DOMAIN none : none[c] = 0
           /\ SumOver(none, DOMAIN none) = 0

\* two records, one of them in the category other
C9_Witness ==
    /\ Summarized
    /\ Len(changes) = 2
    /\ summary["other"] = 1
    /\ summary["removed"] = 1

-----------------------------------------------------------------------------
(* Properties of runs *)

\* the two objects map the same ids to the same entries
SameMapping(a, b) ==
    /\ Keys(a) = Keys(b)
    /\ \A k \in Keys(a) : Lookup(a, k) = Lookup(b, k)

\* the step in which main overwrites the snapshot and returns
Completes == pc = "saving" /\ pc' = "idle" /\ outcome' = "completed"

\* C6: a run that follows a completed run and fetches the mapping that run
\* saved detects no change and appends nothing to the Status Log; the
\* previous snapshot it compares with went through the snapshot sheet.
C6_Idempotence ==
    (/\ pc \in {"detected", "logged", "saving"}
     /\ lastCompleted
     /\ SameMapping(currentAds, lastSaved)) =>
        /\ changes = <<>>
        /\ RunRows = {}

\* the second run fetched the two entities the first run saved, one of them
\* without approval status
C6_Witness ==
    /\ pc = "saving"
    /\ runs = 2
    /\ lastCompleted
    /\ Len(currentAds) = 2
    /\ SameMapping(currentAds, lastSaved)
    /\ Len(snapSheet.rows) >= 2
    /\ snapSheet.rows[2].lastUpdated = 1
    /\ script = "ad" /\ \E k \in Keys(lastSaved) :
                            Lookup(lastSaved, k).approvalStatus = "UNKNOWN"

\* C7: when a run completes, the snapshot sheet keeps its first row and has
\* below it exactly one row per entry of the fetched mapping, with the
\* entry's id and status fields, and nothing else.
C7_SnapshotReplaced ==
    [][Completes =>
          /\ RowAt(snapSheet'.rows, 1) = RowAt(snapSheet.rows, 1)
          /\ getLastRow(snapSheet') =
                 IF Len(currentAds) > 0 THEN Len(currentAds) + 1
                 ELSE IF RowAt(snapSheet.rows, 1) = Blank THEN 0 ELSE 1
          /\ \A i \in 1..Len(currentAds) :
                 LET row == RowAt(snapSheet'.rows, i + 1)
                     ad == currentAds[i].val
                 IN  /\ row.tag = "data"
                     /\ row.id = currentAds[i].key
                     /\ row.status = ad.status
                     /\ row.approvalStatus = ad.approvalStatus
                     /\ row.lastUpdated = runs
      ]_vars

\* a completed run that fetched fewer entities than the snapshot had
C7_Witness ==
    /\ pc = "idle"
    /\ outcome = "completed"
    /\ Len(previousSnapshot) = 2
    /\ Len(currentAds) = 1
    /\ getLastRow(snapSheet) = 2

\* C8: a run that completes after an earlier run has completed logs a row
\* for every entity that is new, removed or changed since the snapshot.
C8_SubsequentRunLogsAll ==
    [][(Completes /\ everCompleted) =>
          \A id \in NewIds \cup RemovedIds \cup {k \in KeptIds : Differs(k)} :
              \E r \in RunRows : logSheet.rows[r].id = id
      ]_vars

\* C10: the rows of the Status Log are never changed; the log grows only
\* when main calls logStatusChanges with a non-empty change list, by one row
\* per record, in order, below its last row (and by the header row when the
\* sheet is created).
C10_LogAppendOnly ==
    [][/\ \A r \in 1..Len(logSheet.rows) :
              /\ r <= Len(logSheet'.rows)
              /\ logSheet'.rows[r] = logSheet.rows[r]
       /\ (pc = "detected" /\ pc' = "logged") =>
              /\ Len(changes) > 0
              /\ Len(logSheet'.rows) = Len(logSheet.rows) + Len(changes)
              /\ \A i \in 1..Len(changes) :
                     LET row == logSheet'.rows[Len(logSheet.rows) + i]
                     IN  /\ row.tag = "data"
                         /\ row.timestamp = changes[i].timestamp
                         /\ row.id = changes[i].id
                         /\ row.previousStatus = changes[i].previousStatus
                         /\ row.newStatus = changes[i].newStatus
                         /\ row.changeType = changes[i].changeType
       /\ (pc = "detected" /\ pc' # "logged") => logSheet' = logSheet
       /\ pc = "starting" =>
              logSheet'.rows \in {logSheet.rows, <<Header>>}
       /\ pc \notin {"detected", "starting"} => logSheet' = logSheet
      ]_vars

\* the log has rows of the first run and, below them, rows of the second
C10_Witness ==
    \E r1, r2 \in 1..Len(logSheet.rows) :
        /\ r1 < r2
        /\ logSheet.rows[r1].tag = "data"
        /\ logSheet.rows[r2].tag = "data"
        /\ logSheet.rows[r1].timestamp = 1
        /\ logSheet.rows[r2].timestamp = 2

-----------------------------------------------------------------------------
(* The order of the change list *)

\* the ids of the records of the change list, in order
RecordIds == [i \in 1..Len(changes) |-> changes[i].id]

\* the ids of the rows of the snapshot sheet below its first row, in order
SnapshotOrder ==
    [i \in 1..Max(getLastRow(snapSheet) - 1, 0) |->
        CellId(RowAt(snapSheet.rows, i + 1))]

\* the elements of seq that are in set, in the order of seq
Select(seq, set) == SelectSeq(seq, LAMBDA x : x \in set)

RemovedTypes == {<<"AD_REMOVED">>, <<"ADGROUP_REMOVED">>}

\* C11: the change list has first the records of the ids of current, in the
\* order in which the fetch yielded them, at most one per id, then the
\* records of the ids only in previous, in the order of the snapshot; every
\* NEW_* or status-change record precedes every *_REMOVED record.
C11_ChangeListOrder ==
    pc = "detected" =>
        /\ RecordIds =
               Select(fetchOrder,
                      {id \in Keys(currentAds) : RecordsOf(id) # {}})
               \o Select(SnapshotOrder, RemovedIds)
        /\ \A i, j \in 1..Len(changes) :
               (/\ changes[i].changeType \in RemovedTypes
                /\ changes[j].changeType \notin RemovedTypes) => j < i

-----------------------------------------------------------------------------
(* Failures *)

\* the elements of a sequence
Range(seq) == {seq[i] : i \in 1..Len(seq)}

\* C12: when the query fails (on the search call or on a row), no error
\* reaches main: the fetcher returns the mapping of the rows it got before
\* the failure, possibly empty, and the run goes on through detection,
\* logging, alerting and the snapshot update to its normal completion.
C12_FetchFailureRecovered ==
    fetchError =>
        /\ \/ pc \in {"fetched", "detected", "logged", "saving"}
           \/ pc = "idle" /\ outcome = "completed"
        /\ outcome # "failed"
        /\ pc \in {"fetched", "detected"} =>
               /\ Keys(currentAds) = Range(fetchOrder)
               /\ Len(currentAds) <= fetched
               /\ fetched <= MaxFetch

\* a fetch that failed before its first row in a run that has logged the
\* removal of the two entities of the snapshot, posted the alert and emptied
\* the snapshot sheet
C12_Witness ==
    /\ fetchError
    /\ pc = "idle"
    /\ outcome = "completed"
    /\ fetched = 0
    /\ currentAds = EmptyObject
    /\ Cardinality(RunRows) = 2
    /\ Len(posts) = 1
    /\ getLastRow(snapSheet) = 1

\* C13: an error while the helper spreadsheet is read or while the webhook
\* is posted to does not end the run: after the Status Log append and the
\* call of sendSlackAlert, whether the alert was sent, failed or was
\* skipped, main is at the snapshot update, with which the run completes.
C13_AlertFailureRecovered ==
    helper # <<>> =>
        /\ pc = "saving"
        /\ outcome = "running"
        /\ RunRows # {}

\* a completed run whose webhook post failed and whose snapshot rows are of
\* this run
C13_Witness ==
    /\ pc = "idle"
    /\ outcome = "completed"
    /\ runs = 2
    /\ Len(posts) = 1
    /\ ~posts[1].delivered
    /\ RunRows # {}
    /\ getLastRow(snapSheet) = 3
    /\ snapSheet.rows[3].lastUpdated = 2

-----------------------------------------------------------------------------
(* The webhook posts of a run *)

\* the rows of the helper sheet whose account id, trimmed, is the id of the
\* current account
MatchingRows(h) ==
    {i \in 1..Len(h.rows) : TrimText(h.rows[i][1]) = <<AccountId>>}

\* the first of them
FirstMatching(h) ==
    CHOOSE i \in MatchingRows(h) : \A j \in MatchingRows(h) : i <= j

\* an endpoint resolves for the current account
Resolves(h) ==
    /\ h.url # ""
    /\ h.url # Placeholder
    /\ ~h.throws
    /\ h.hasSheet
    /\ Len(h.rows) > 0
    /\ MatchingRows(h) # {}
    /\ TrimText(h.rows[FirstMatching(h)][2]) # <<>>

\* C14: a run posts to the webhook at most once: not at all when its change
\* list is empty or when no endpoint resolves (helper url unset or the
\* placeholder, helper sheet missing or without data rows, no row whose
\* trimmed account id is the current account's, empty url in the first such
\* row, error during the lookup), and once otherwise, to the url of the
\* first matching row; an endpoint that does not resolve raises no error.
C14_WebhookPosts ==
    /\ Len(posts) <= 1
    /\ (Detected /\ changes = <<>>) => posts = <<>>
    /\ helper # <<>> =>
           /\ changes # <<>>
           /\ outcome = "running"
           /\ IF Resolves(helper[1])
              THEN /\ Len(posts) = 1
                   /\ posts[1].url =
                          TrimText(helper[1].rows[FirstMatching(helper[1])][2])
              ELSE posts = <<>>

\* the alert went to the url of the second row: the first row has no account
\* id, the second has the id and the url with blanks around them, the third
\* has the id as well
C14_Witness ==
    /\ pc = "saving"
    /\ helper # <<>>
    /\ Len(helper[1].rows) = 3
    /\ FirstMatching(helper[1]) = 2
    /\ Cardinality(MatchingRows(helper[1])) = 2
    /\ helper[1].rows[2][2] # posts[1].url
    /\ posts[1].url = <<"hookA">>

-----------------------------------------------------------------------------
(* The fatal failures *)

\* the positions of main at an operation on the main spreadsheet
StoreSteps == {"starting", "loading", "detected", "saving"}

\* C15: only a failing operation on the main spreadsheet (opening it,
\* getting or creating a sheet, loading the snapshot, appending to the log,
\* overwriting the snapshot) ends a run as failed; main is left at once, so
\* none of the later steps of that run is executed (no log row when the
\* failure is before the append, no alert and no snapshot overwrite when it
\* is at or before the append) and the next step is the start of another
\* run.  A failing fetch or alert never ends the run.
C15_StoreFailureFatal ==
    [][/\ (pc # "idle" /\ outcome' = "failed") =>
              /\ pc \in StoreSteps
              /\ pc = "detected" => Len(changes) > 0
              /\ pc' = "idle"
              /\ pc \in {"starting", "loading"} => RunRows' = {}
              /\ pc # "saving" =>
                     /\ posts' = <<>>
                     /\ getAdSnapshot(snapSheet') = getAdSnapshot(snapSheet)
              /\ posts' = posts
              /\ lastSaved' = lastSaved
              /\ everCompleted' = everCompleted
       /\ outcome = "failed" =>
              /\ pc = "idle"
              /\ pc' = "starting"
              /\ runs' = runs + 1
       /\ pc \in {"fetching", "logged"} => outcome' # "failed"
      ]_vars

\* the run failed at the snapshot overwrite: its changes are in the log, the
\* snapshot sheet still has the rows of the run before
C15_Witness ==
    /\ outcome = "failed"
    /\ pc = "idle"
    /\ runs = 2
    /\ RunRows # {}
    /\ getLastRow(snapSheet) = 2
    /\ snapSheet.rows[2].lastUpdated = 1
    /\ Len(posts) = 1

-----------------------------------------------------------------------------
(* The approval status of the fetched ads *)

\* the approval statuses of the rows of the query that are not empty
RowApprovals == {row.approvalStatus : row \in FetchRows} \ {""}

\* the iterator has yielded a row and the body of the loop has run on it
RowFetched == pc = "fetching" /\ fetched' = fetched + 1

\* C16: in the ad tracker every row the query yields, also one whose approval
\* status is missing or empty, is stored in the current mapping (with
\* "UNKNOWN" when it has no approval status) and the fetch goes on with the
\* next row; no entry of the current mapping has an empty or missing approval
\* status.
C16_ApprovalUnknown ==
    /\ [][(script = "ad" /\ RowFetched) =>
              /\ pc' = "fetching"
              /\ ~fetchError'
              /\ currentAds' # EmptyObject]_vars
    /\ [](script = "ad" =>
              \A i \in 1..Len(currentAds) :
                  currentAds[i].val.approvalStatus
                      \in (RowApprovals \ {"", NoPolicySummary})
                              \cup {"UNKNOWN"})

-----------------------------------------------------------------------------
(* The categories of the summary of the ad tracker *)

\* the fragments of a change type: its pieces without the separator
Fragments(changeType) ==
    {changeType[i] : i \in 1..Len(changeType)} \ {" + "}

\* the fragments in the order in which categorizeChanges asks for them, each
\* with the category it stands for
CategoryOrder ==
    << <<{"NEW_AD"}, "newAds">>,
       <<{"ENABLED"}, "enabled">>,
       <<{"PAUSED"}, "paused">>,
       <<{"REMOVED", "AD_REMOVED"}, "removed">>,
       <<{"DISAPPROVED"}, "disapproved">>,
       <<{"APPROVED_LIMITED"}, "approvedLimited">>,
       <<{"AREA_OF_INTEREST_ONLY"}, "areaOfInterestOnly">>,
       <<{"APPROVED"}, "approved">>,
       <<{"UNDER_REVIEW"}, "underReview">> >>

\* the category of the first of them that is a fragment of the change type
OwnCategory(changeType) ==
    LET hits == {k \in 1..Len(CategoryOrder) :
                    CategoryOrder[k][1] \cap Fragments(changeType) # {}}
    IN  IF hits = {} THEN "other"
        ELSE CategoryOrder[CHOOSE k \in hits : \A m \in hits : k <= m][2]

Fallbacks == {"STATUS_CHANGED", "APPROVAL_CHANGED"}

\* C17: the summary of the ad tracker counts every record once, in the
\* category of the first of NEW_AD, ENABLED, PAUSED, REMOVED, DISAPPROVED,
\* APPROVED_LIMITED, AREA_OF_INTEREST_ONLY, APPROVED, UNDER_REVIEW that is
\* one of its fragments: a single fragment in its own category (DISAPPROVED
\* and APPROVED_LIMITED never as approved), a composite with the status
\* ENABLED, PAUSED or REMOVED only under that status, and in other exactly
\* the records all of whose fragments are STATUS_CHANGED or APPROVAL_CHANGED.
C17_AdCategories ==
    (Summarized /\ script = "ad") =>
        /\ \A c \in AdCategories :
               summary[c] =
                   Cardinality({i \in 1..Len(changes) :
                                   OwnCategory(changes[i].changeType) = c})
        /\ summary["other"] =
               Cardinality({i \in 1..Len(changes) :
                               Fragments(changes[i].changeType) \subseteq Fallbacks})
        /\ summary["approved"] =
               Cardinality({i \in 1..Len(changes) :
                   /\ "APPROVED" \in Fragments(changes[i].changeType)
                   /\ Fragments(changes[i].changeType)
                          \cap {"ENABLED", "PAUSED", "REMOVED"} = {}})

\* a paused and disapproved ad is counted as paused only, an ad approved with
\* limits as approvedLimited and not as approved
C17_Witness ==
    /\ Summarized
    /\ script = "ad"
    /\ \E i, j \in 1..Len(changes) :
           /\ changes[i].changeType = <<"PAUSED", " + ", "DISAPPROVED">>
           /\ changes[j].changeType = <<"APPROVED_LIMITED">>
    /\ summary["paused"] = 1
    /\ summary["approvedLimited"] = 1
    /\ summary["disapproved"] = 0
    /\ summary["approved"] = 0

-----------------------------------------------------------------------------
(* The size of the change list *)

\* C18: detectStatusChanges returns at most one record per id, every record
\* has an id of previous or of current, so there are at most as many records
\* as ids in the two mappings together; the two mappings are as they were
\* before the call.
C18_AtMostOneRecordPerId ==
    Detected =>
        /\ \A i, j \in 1..Len(changes) :
               changes[i].id = changes[j].id => i = j
        /\ \A i \in 1..Len(changes) :
               changes[i].id \in Keys(previousSnapshot) \cup Keys(currentAds)
        /\ Len(changes) <=
               Cardinality(Keys(previousSnapshot) \cup Keys(currentAds))
        /\ previousSnapshot = getAdSnapshot(snapSheet)
        /\ previousSnapshot = lastSaved
        /\ pc = "detected" =>
               /\ Range(fetchOrder) = Keys(currentAds)
               /\ Len(currentAds) <= fetched

\* one id only in previous, one id in both with another status: two
\* records for two ids
C18_Witness ==
    /\ pc = "detected"
    /\ Len(previousSnapshot) = 2
    /\ Len(currentAds) = 1
    /\ Len(changes) = 2
    /\ \E id \in KeptIds : Differs(id)

-----------------------------------------------------------------------------
(* Removals over two runs *)

\* the rows the Status Log got in the current run for an id
RunRowsOf(id) == {r \in RunRows : logSheet.rows[r].id = id}

\* C19: an id of the snapshot that is missing from the fetch of a completed
\* run and of the completed run after it is reported once: the first run
\* logs exactly one *_REMOVED row for it and saves a snapshot without it, the
\* second run logs no row for it.
C19_RemovalReportedOnce ==
    /\ (pc = "idle" /\ outcome = "completed") =>
           \A id \in RemovedIds :
               /\ Cardinality(RunRowsOf(id)) = 1
               /\ \A r \in RunRowsOf(id) :
                      /\ logSheet.rows[r].changeType \in RemovedTypes
                      /\ logSheet.rows[r].newStatus = "REMOVED"
               /\ id \notin Keys(getAdSnapshot(snapSheet))
               /\ id \in lastRemoved
    /\ pc \in {"detected", "logged", "saving"} =>
           \A id \in lastRemoved \ Keys(currentAds) :
               /\ id \notin Keys(previousSnapshot)
               /\ RecordsOf(id) = {}
               /\ RunRowsOf(id) = {}

\* the second run is at its snapshot update: the run before it completed
\* and reported an entity as removed, this run fetched the other entity
\* only, with another status, and has logged one row, not for the removed id
C19_Witness ==
    /\ pc = "saving"
    /\ runs = 2
    /\ Cardinality(lastRemoved) = 1
    /\ Len(currentAds) = 1
    /\ lastRemoved \cap Keys(currentAds) = {}
    /\ Cardinality(RunRows) = 1
    /\ \E r \in 1..Len(logSheet.rows) :
           /\ logSheet.rows[r].tag = "data"
           /\ logSheet.rows[r].timestamp = 1
           /\ logSheet.rows[r].id \in lastRemoved
           /\ logSheet.rows[r].changeType \in RemovedTypes

-----------------------------------------------------------------------------
(* The baseline after an empty fetch *)

\* the run before this one completed with nothing fetched and a snapshot
\* that had entries
AfterReset ==
    /\ everCompleted
    /\ lastSaved = EmptyObject
    /\ lastRemoved # {}

\* C20: a completed run that fetched nothing (no entity in the account, or a
\* fetch that failed before its first row) while the snapshot had entries
\* logs one *_REMOVED row for every id of the snapshot and saves an empty
\* snapshot; the run after it loads an empty snapshot and logs no row
\* whatever it fetches, also for the entities that are there again.
C20_BaselineReset ==
    /\ (/\ pc = "idle"
        /\ outcome = "completed"
        /\ currentAds = EmptyObject
        /\ previousSnapshot # EmptyObject) =>
           /\ \A id \in Keys(previousSnapshot) :
                  /\ Cardinality(RunRowsOf(id)) = 1
                  /\ \A r \in RunRowsOf(id) :
                         logSheet.rows[r].changeType \in RemovedTypes
           /\ Cardinality(RunRows) = Len(previousSnapshot)
           /\ getAdSnapshot(snapSheet) = EmptyObject
           /\ getLastRow(snapSheet) <= 1
           /\ lastRemoved = Keys(previousSnapshot)
    /\ (AfterReset /\ pc \in {"fetching", "fetched", "detected", "logged",
                              "saving"}) =>
           /\ previousSnapshot = EmptyObject
           /\ changes = <<>>
           /\ RunRows = {}
           /\ posts = <<>>
           /\ pc # "logged"

\* the run after the reset fetched the two entities that the reset had
\* reported as removed and is at its snapshot update without a log row
C20_Witness ==
    /\ AfterReset
    /\ pc = "saving"
    /\ runs = 2
    /\ Len(currentAds) = 2
    /\ Keys(currentAds) = lastRemoved
    /\ RunRows = {}
    /\ \E r \in 1..Len(logSheet.rows) :
           /\ logSheet.rows[r].tag = "data"
           /\ logSheet.rows[r].timestamp = 1
           /\ logSheet.rows[r].changeType \in RemovedTypes

-----------------------------------------------------------------------------
(* The order of the steps of a run, and a run the host ends *)

\* what a sheet holds below its header row
DataRows(sheet) == SubSeq(sheet.rows, 2, Len(sheet.rows))

\* the statements of main after the one that has just returned
NextSteps(at) ==
    CASE at = "idle" -> {"starting"}
      [] at = "starting" -> {"loading"}
      [] at = "loading" -> {"fetching"}
      [] at = "fetching" -> {"fetched"}
      [] at = "fetched" -> {"detected"}
      [] at = "detected" -> {"logged", "saving"}
      [] at = "logged" -> {"saving"}
      [] at = "saving" -> {"idle"}
      [] OTHER -> {}

\* a change record without the time of its run
Untimed(change) == [change EXCEPT !.timestamp = 0]

\* the last n rows of the Status Log that come before its last skip rows
LogTail(n, skip) ==
    LET last == Len(logSheet.rows) - skip
    IN  IF last < n THEN <<>> ELSE SubSeq(logSheet.rows, last - n + 1, last)

\* the rows logStatusChanges writes for a list of change records
LogRows(list) == [i \in 1..Len(list) |-> LogRow(list[i])]

\* One step of main: the statements run in their order, each local and each
\* sheet is written by its own statement only (the data rows of the snapshot
\* by the overwrite, whether it returns or is left midway), and a run that
\* ends before the overwrite leaves the data rows of both sheets as they are.
RunOrderStep ==
    /\ pc' # pc => pc' \in NextSteps(pc) \cup {"idle"}
    /\ (pc = "detected" /\ pc' = "logged") => Len(changes) > 0
    /\ (pc = "detected" /\ pc' = "saving") => Len(changes) = 0
    /\ (pc' \notin {"idle", "starting"}
            /\ previousSnapshot' # previousSnapshot) =>
           pc = "loading" /\ pc' = "fetching"
    /\ (pc' \notin {"idle", "starting"} /\ currentAds' # currentAds) =>
           pc = "fetching"
    /\ (pc' \notin {"idle", "starting"} /\ changes' # changes) =>
           pc = "fetched" /\ pc' = "detected"
    /\ DataRows(logSheet') # DataRows(logSheet) =>
           pc = "detected" /\ pc' = "logged"
    /\ (pc' # "starting" /\ posts' # posts) =>
           pc = "logged" /\ pc' = "saving"
    /\ (pc \in {"logged", "saving"} /\ pc' = "saving") =>
           /\ DataRows(logSheet') = DataRows(logSheet)
           /\ LogTail(Len(changes), 0) = LogRows(changes)
    /\ DataRows(snapSheet') # DataRows(snapSheet) => pc = "saving"
    /\ (pc \notin {"idle", "saving"} /\ pc' = "idle") =>
           /\ DataRows(logSheet') = DataRows(logSheet)
           /\ DataRows(snapSheet') = DataRows(snapSheet)
           /\ posts' = posts
    /\ (pc \in {"logged", "saving"} /\ pc' = "idle"
            /\ outcome' = "aborted") =>
           /\ logSheet' = logSheet
           /\ LogTail(Len(changes), 0) = LogRows(changes)
           /\ snapSheet' = snapSheet \/ (pc = "saving" /\ abortedRun' = <<>>)

\* A run the host ended between its log append and its snapshot overwrite
\* has left its rows in the Status Log and the snapshot it had loaded; the
\* next run, when it fetches the same result, loads that snapshot, detects
\* the same changes and appends their rows after the rows of the ended run.
LoggedAgain ==
    abortedRun # <<>> =>
        LET ended == abortedRun[1]
            n == Len(ended.changes)
        IN  /\ n > 0
            /\ getAdSnapshot(snapSheet) = ended.previous
            /\ \A i \in 1..n : ended.changes[i].timestamp = runs - 1
                                   \/ pc = "idle"
            /\ (pc = "idle" /\ outcome = "aborted") =>
                   /\ LogTail(n, 0) = LogRows(ended.changes)
                   /\ \A i \in 1..n : ended.changes[i].timestamp = runs
            /\ (pc \in {"logged", "saving"}
                    /\ currentAds = ended.fetched) =>
                   /\ previousSnapshot = ended.previous
                   /\ Len(changes) = n
                   /\ \A i \in 1..n :
                          /\ Untimed(changes[i]) = Untimed(ended.changes[i])
                          /\ changes[i].timestamp = runs
                   /\ LogTail(n, 0) = LogRows(changes)
                   /\ LogTail(n, n) = LogRows(ended.changes)

\* C21: within a run the steps occur in the fixed order load snapshot, fetch,
\* detect, Status Log append, alert, snapshot overwrite, and the snapshot is
\* not modified before the log append and the alert have returned; so when
\* the host ends a run after the log append and before the snapshot
\* overwrite, the snapshot is unchanged and the next run with the same fetch
\* result appends the same change records to the Status Log again (changes
\* are logged at least once, duplicates are possible).
C21_AtLeastOnce == [][RunOrderStep]_vars /\ []LoggedAgain

\* the run after a run the host ended at its alert has fetched the same
\* result and is at its snapshot overwrite: the Status Log holds the two
\* change records twice, under the times of the two runs
C21_Witness ==
    /\ abortedRun # <<>>
    /\ pc = "saving"
    /\ runs = 2
    /\ currentAds = abortedRun[1].fetched
    /\ Len(changes) = 2
    /\ Cardinality(RunRows) = 2
    /\ Cardinality({r \in 1..Len(logSheet.rows) :
                       /\ logSheet.rows[r].tag = "data"
                       /\ logSheet.rows[r].timestamp = 1}) = 2
    /\ getAdSnapshot(snapSheet) = previousSnapshot

====
